---- MODULE Spec2Model ----
(***************************************************************************)
(* Model of OrdersService (src/src/orders/orders.service.ts): create,      *)
(* cancel and updateStatus running concurrently against one transactional  *)
(* store with row-level exclusive locks.                                    *)
(*                                                                          *)
(* Store semantics (read committed, as the service relies on):              *)
(*   - writes made through a query runner are buffered in the transaction   *)
(*     (txP, txO) and become visible to others at commitTransaction;        *)
(*   - findOne with lock pessimistic_write blocks while another             *)
(*     transaction holds the row lock, then reads the latest committed row; *)
(*     on a row that does not exist it locks nothing and returns null;      *)
(*   - an UPDATE of a row blocks on the row lock like a locking read;       *)
(*   - row locks are released at commit or rollback.                        *)
(* An action is one awaited call of a handler together with the awaited    *)
(* calls after it that touch only the handler's own transaction (no lock   *)
(* to wait for, nothing another client can see): starting a transaction,   *)
(* and the saves into it that precede the commit.  Money is kept in        *)
(* integer minor units.                                                     *)
(***************************************************************************)
EXTENDS Integers, Sequences, FiniteSets, TLC

\* ---- bounds of the model --------------------------------------------------
MaxStock == 2      \* initial stock of a product is drawn from 0..MaxStock
MaxQty   == 2      \* a line's quantity is drawn from 1..MaxQty
MaxLines == 2      \* a request has 1..MaxLines lines
MaxOps   == 3      \* operations started in one behaviour
MaxOrders == 2     \* order ids drawn from the sequence in one behaviour
RaceOps  == 4      \* operations started in one behaviour of SpecRace

Clients    == {"c1", "c2"}          \* concurrent request handlers
NoClient   == "none"
Products   == {"p1", "p2"}          \* product rows that exist
ProductIds == Products \cup {"p9"}  \* ids a request may name; p9 has no row
Users      == {"u1"}                \* users that exist
UserIds    == Users \cup {"u9"}     \* u9 does not exist
OrderIds   == 1..MaxOrders

\* OrderStatus (order.entity): PENDING, CANCELLED and the in-progress statuses
OrderStatus == {"PENDING", "CONFIRMED", "CANCELLED"}

\* Product.price, never written by the service
price == [p \in Products |-> IF p = "p1" THEN 5 ELSE 7]

VARIABLES
  products,        \* committed Product rows: [Products -> [stock, isAvailable]]
  orders,          \* committed Order rows with their items, by id
  nextId,          \* the Order id sequence
  lockP,           \* holder of each Product row lock
  lockO,           \* holder of each Order row lock
  pc,              \* position of each client in its handler
  op,              \* the service method each client is running
  dto,             \* create: the CreateOrderDto
  oid,             \* cancel / updateStatus: the id argument
  target,          \* updateStatus: the status argument
  savedOrder,      \* create: id of the inserted order (savedOrder.id)
  idx,             \* loop position (create: dto items; cancel: order items)
  orderItems,      \* create: the orderItems array
  updatedProducts, \* create: the updatedProducts map
  total,           \* create: the running total
  order,           \* cancel / updateStatus: the loaded order entity
  txP,             \* product writes buffered in the client's transaction
  txO,             \* order writes buffered in the client's transaction
  res,             \* outcome of the client's last call
  ret,             \* order returned by the client's last successful call
  nops,            \* operations started so far
  stock0,          \* history: the initial stock of each product
  cancels          \* history: successful cancels per order id

vars == <<products, orders, nextId, lockP, lockO, pc, op, dto, oid, target,
          savedOrder, idx, orderItems, updatedProducts, total, order, txP, txO,
          res, ret, nops, stock0, cancels>>

db     == <<products, orders>>
locals == <<dto, oid, target, savedOrder, idx, orderItems, updatedProducts,
            total, order>>

\* ---- values ---------------------------------------------------------------
EmptyMap == [x \in {} |-> 0]
NoDto    == [userId |-> "none", items |-> <<>>]
NoOrder  == [userId |-> "none", status |-> "NONE", total |-> 0, items |-> <<>>]

OrderItemDtos == [productId : ProductIds, quantity : 1..MaxQty]
ItemLists     == UNION {[1..n -> OrderItemDtos] : n \in 1..MaxLines}
CreateOrderDtos == [userId : UserIds, items : ItemLists]

\* f with the entries of g written over it
Overlay(f, g) == [k \in DOMAIN f \cup DOMAIN g |-> IF k \in DOMAIN g THEN g[k] ELSE f[k]]

RECURSIVE SumItems(_)
SumItems(items) ==
  IF items = <<>> THEN 0
  ELSE items[1].price * items[1].quantity + SumItems(Tail(items))

\* quantity requested for product p over all lines
RECURSIVE QtyFor(_, _)
QtyFor(items, p) ==
  IF items = <<>> THEN 0
  ELSE (IF items[1].productId = p THEN items[1].quantity ELSE 0) + QtyFor(Tail(items), p)

\* ---- initial state --------------------------------------------------------
InitStore ==
  /\ stock0 \in [Products -> 0..MaxStock]
  /\ products = [p \in Products |-> [stock |-> stock0[p], isAvailable |-> stock0[p] > 0]]
  /\ orders = EmptyMap
  /\ nextId = 1
  /\ lockP = [p \in Products |-> NoClient]
  /\ lockO = [i \in OrderIds |-> NoClient]
  /\ pc = [c \in Clients |-> "idle"]
  /\ op = [c \in Clients |-> "none"]
  /\ oid = [c \in Clients |-> 0]
  /\ target = [c \in Clients |-> "NONE"]
  /\ savedOrder = [c \in Clients |-> 0]
  /\ idx = [c \in Clients |-> 0]
  /\ orderItems = [c \in Clients |-> <<>>]
  /\ updatedProducts = [c \in Clients |-> EmptyMap]
  /\ total = [c \in Clients |-> 0]
  /\ order = [c \in Clients |-> NoOrder]
  /\ txP = [c \in Clients |-> EmptyMap]
  /\ txO = [c \in Clients |-> EmptyMap]
  /\ res = [c \in Clients |-> "none"]
  /\ ret = [c \in Clients |-> NoOrder]
  /\ nops = 0
  /\ cancels = [i \in OrderIds |-> 0]

Init ==
  /\ InitStore
  /\ dto = [c \in Clients |-> NoDto]

\* ---- transaction coordinator ---------------------------------------------
\* mutant: a locking read does not wait for the holder
CanLockNoWait(holder, c) == TRUE

\* the row lock is free for c to take (or already c's)
CanLock(holder, c) == holder \in {NoClient, c}

\* mutant: the end of the transaction leaves its order row locks in place
ReleaseLocksKeepOrder(c) ==
  /\ lockP' = [p \in Products |-> IF lockP[p] = c THEN NoClient ELSE lockP[p]]
  /\ lockO' = lockO

\* commit or rollback ends the transaction and with it every row lock it holds
ReleaseLocks(c) ==
  /\ lockP' = [p \in Products |-> IF lockP[p] = c THEN NoClient ELSE lockP[p]]
  /\ lockO' = [i \in OrderIds |-> IF lockO[i] = c THEN NoClient ELSE lockO[i]]

\* the handler's locals go out of scope when the call returns
ClearLocals(c) ==
  /\ dto' = [dto EXCEPT ![c] = NoDto]
  /\ oid' = [oid EXCEPT ![c] = 0]
  /\ target' = [target EXCEPT ![c] = "NONE"]
  /\ savedOrder' = [savedOrder EXCEPT ![c] = 0]
  /\ idx' = [idx EXCEPT ![c] = 0]
  /\ orderItems' = [orderItems EXCEPT ![c] = <<>>]
  /\ updatedProducts' = [updatedProducts EXCEPT ![c] = EmptyMap]
  /\ total' = [total EXCEPT ![c] = 0]
  /\ order' = [order EXCEPT ![c] = NoOrder]

\* mutant: the buffered product writes survive the rollback
RolledBackProductsKept(c) == Overlay(products, txP[c])

\* what rollbackTransaction leaves in the committed store
RolledBackProducts(c) == products

RolledBackOrders(c) == orders

\* what commitTransaction leaves in the committed store
CommittedProducts(c) == Overlay(products, txP[c])

CommittedOrders(c) == Overlay(orders, txO[c])

\* catch: rollbackTransaction, throw; finally: release
Rollback(c, kind) ==
  /\ products' = RolledBackProducts(c)
  /\ orders' = RolledBackOrders(c)
  /\ ReleaseLocks(c)
  /\ txP' = [txP EXCEPT ![c] = EmptyMap]
  /\ txO' = [txO EXCEPT ![c] = EmptyMap]
  /\ ClearLocals(c)
  /\ pc' = [pc EXCEPT ![c] = "idle"]
  /\ res' = [res EXCEPT ![c] = kind]
  /\ ret' = [ret EXCEPT ![c] = NoOrder]
  /\ UNCHANGED <<nextId, op, nops, stock0, cancels>>

\* ---- create ---------------------------------------------------------------
\* startTransaction, usersService.findOne, manager.save(Order, order)
CreateStart(c, d) ==
  /\ pc[c] = "idle"
  /\ nops' = nops + 1
  /\ op' = [op EXCEPT ![c] = "create"]
  /\ IF d.userId \notin Users
     THEN /\ res' = [res EXCEPT ![c] = "NotFound"]
          /\ ret' = [ret EXCEPT ![c] = NoOrder]
          /\ UNCHANGED <<db, nextId, lockP, lockO, pc, locals, txP, txO, stock0, cancels>>
     ELSE /\ nextId <= MaxOrders
          /\ nextId' = nextId + 1
          /\ savedOrder' = [savedOrder EXCEPT ![c] = nextId]
          /\ txO' = [txO EXCEPT ![c] = nextId :>
                       [userId |-> d.userId, status |-> "PENDING", total |-> 0, items |-> <<>>]]
          /\ dto' = [dto EXCEPT ![c] = d]
          /\ idx' = [idx EXCEPT ![c] = 1]
          /\ pc' = [pc EXCEPT ![c] = "c_loop"]
          /\ res' = [res EXCEPT ![c] = "none"]
          /\ ret' = [ret EXCEPT ![c] = NoOrder]
          /\ UNCHANGED <<db, lockP, lockO, oid, target, orderItems, updatedProducts,
                         total, order, txP, stock0, cancels>>

\* mutant: no cache, every line reads the committed row again
LineProductReRead(c, pid) == products[pid]

\* the product row a line works on: the cached entity, else the locked read
LineProduct(c, pid) ==
  IF pid \in DOMAIN updatedProducts[c] THEN updatedProducts[c][pid] ELSE products[pid]

\* does the line's product resolve to an entity (cached, or a row that exists)
Found(c, pid) == pid \in DOMAIN updatedProducts[c] \/ pid \in Products

\* may the line's product be read now (cache hit, no row, or lock obtainable)
LineReadable(c, pid) ==
  IF pid \in DOMAIN updatedProducts[c] THEN TRUE
  ELSE IF pid \notin Products THEN TRUE
  ELSE CanLock(lockP[pid], c)

\* mutant: the stock guard is missing
RejectedNoStockCheck(product, qty) == ~product.isAvailable

\* the two guards on a line: not available, or not enough stock
Rejected(product, qty) == ~product.isAvailable \/ product.stock < qty

\* mutant: a missing product is reported as a bad request
LineOutcomeBadRequest(c, pid, qty) ==
  IF ~Found(c, pid) THEN "InvalidRequest"
  ELSE IF Rejected(LineProduct(c, pid), qty) THEN "InvalidRequest"
  ELSE "pass"

\* the three throws of a loop iteration, in the order the code makes them
LineOutcome(c, pid, qty) ==
  IF ~Found(c, pid) THEN "NotFound"
  ELSE IF Rejected(LineProduct(c, pid), qty) THEN "InvalidRequest"
  ELSE "pass"

\* mutant: isAvailable is not recomputed
ReserveKeepsFlag(product, qty) ==
  [stock |-> product.stock - qty, isAvailable |-> product.isAvailable]

\* the product entity after a line has reserved qty of it
Reserve(product, qty) ==
  [stock |-> product.stock - qty, isAvailable |-> product.stock - qty > 0]

\* mutant: the quantity is left out of the line's amount
AddLineUnitPrice(t, p, qty) == t + price[p]

\* the total after a line
AddLine(t, p, qty) == t + price[p] * qty

\* mutant: the total is not written to the order
SavedOrderNoTotal(o, items, t) == [o EXCEPT !.items = items]

\* the order row as saved with its items and total
SavedOrder(o, items, t) == [o EXCEPT !.items = items, !.total = t]

\* one iteration of the for loop over createOrderDto.items
CreateLine(c) ==
  /\ pc[c] = "c_loop"
  /\ LET item == dto[c].items[idx[c]]
         pid  == item.productId
     IN
     /\ LineReadable(c, pid)
     /\ IF LineOutcome(c, pid, item.quantity) # "pass"
        THEN Rollback(c, LineOutcome(c, pid, item.quantity))
        ELSE LET product == LineProduct(c, pid) IN
                  /\ lockP' = [lockP EXCEPT ![pid] = c]
                  /\ orderItems' = [orderItems EXCEPT ![c] = Append(@,
                        [productId |-> pid, quantity |-> item.quantity, price |-> price[pid]])]
                  /\ total' = [total EXCEPT ![c] = AddLine(@, pid, item.quantity)]
                  /\ updatedProducts' = [updatedProducts EXCEPT ![c] =
                        Overlay(@, pid :> Reserve(product, item.quantity))]
                  /\ idx' = [idx EXCEPT ![c] = @ + 1]
                  /\ IF idx[c] < Len(dto[c].items)
                     THEN /\ pc' = [pc EXCEPT ![c] = "c_loop"]
                          /\ UNCHANGED <<txP, txO>>
                     ELSE \* after the loop: save(OrderItem, orderItems);
                          \* save(Product, ...); savedOrder.total = total; save(Order)
                          /\ txP' = [txP EXCEPT ![c] = updatedProducts'[c]]
                          /\ txO' = [txO EXCEPT ![c] = [@ EXCEPT ![savedOrder[c]] =
                                        SavedOrder(@, orderItems'[c], total'[c])]]
                          /\ pc' = [pc EXCEPT ![c] = "c_commit"]
                  /\ UNCHANGED <<db, nextId, lockO, op, dto, oid, target, savedOrder, order,
                                 res, ret, nops, stock0, cancels>>

\* commitTransaction
CreateCommit(c) ==
  /\ pc[c] = "c_commit"
  /\ products' = CommittedProducts(c)
  /\ orders' = CommittedOrders(c)
  /\ ReleaseLocks(c)
  /\ txP' = [txP EXCEPT ![c] = EmptyMap]
  /\ txO' = [txO EXCEPT ![c] = EmptyMap]
  /\ pc' = [pc EXCEPT ![c] = "c_find"]
  /\ UNCHANGED <<nextId, op, locals, res, ret, nops, stock0, cancels>>

\* return this.findOne(savedOrder.id)
CreateFind(c) ==
  /\ pc[c] = "c_find"
  /\ IF savedOrder[c] \in DOMAIN orders
     THEN /\ res' = [res EXCEPT ![c] = "ok"]
          /\ ret' = [ret EXCEPT ![c] = orders[savedOrder[c]]]
     ELSE /\ res' = [res EXCEPT ![c] = "NotFound"]
          /\ ret' = [ret EXCEPT ![c] = NoOrder]
  /\ ClearLocals(c)
  /\ pc' = [pc EXCEPT ![c] = "idle"]
  /\ UNCHANGED <<db, nextId, lockP, lockO, op, txP, txO, nops, stock0, cancels>>

\* ---- cancel ---------------------------------------------------------------
\* startTransaction; findOne(Order, {where: {id}, lock: pessimistic_write}), whose
\* result is dropped: a row that exists is locked, a row that does not is not
CancelLock(c, id, method, st) ==
  /\ pc[c] = "idle"
  /\ nops' = nops + 1
  /\ op' = [op EXCEPT ![c] = method]
  /\ oid' = [oid EXCEPT ![c] = id]
  /\ target' = [target EXCEPT ![c] = st]
  /\ IF id \in DOMAIN orders
     THEN /\ CanLock(lockO[id], c)
          /\ lockO' = [lockO EXCEPT ![id] = c]
     ELSE UNCHANGED lockO
  /\ pc' = [pc EXCEPT ![c] = "x_read"]
  /\ res' = [res EXCEPT ![c] = "none"]
  /\ ret' = [ret EXCEPT ![c] = NoOrder]
  /\ UNCHANGED <<db, nextId, lockP, dto, savedOrder, idx, orderItems,
                 updatedProducts, total, order, txP, txO, stock0, cancels>>

\* cancel(id)
CancelStart(c, id) == CancelLock(c, id, "cancel", "NONE")

\* may an order in this status be cancelled
Cancellable(status) == status = "PENDING"

\* findOne(Order, {where: {id}, relations}); the two guards
CancelRead(c) ==
  /\ pc[c] = "x_read"
  /\ IF oid[c] \notin DOMAIN orders
     THEN Rollback(c, "NotFound")
     ELSE IF ~Cancellable(orders[oid[c]].status)
     THEN Rollback(c, "InvalidRequest")
     ELSE /\ order' = [order EXCEPT ![c] = orders[oid[c]]]
          /\ idx' = [idx EXCEPT ![c] = 1]
          /\ pc' = [pc EXCEPT ![c] = "x_loop"]
          /\ UNCHANGED <<db, nextId, lockP, lockO, op, dto, oid, target, savedOrder,
                         orderItems, updatedProducts, total, txP, txO, res, ret, nops,
                         stock0, cancels>>

\* mutant: the read misses the transaction's own writes
TxProductCommittedOnly(c, p) == products[p]

\* the product row as the client's transaction sees it
TxProduct(c, p) == IF p \in DOMAIN txP[c] THEN txP[c][p] ELSE products[p]

\* the product entity after an item's quantity is put back
Restock(product, qty) == [stock |-> product.stock + qty, isAvailable |-> TRUE]

\* one iteration of the for loop over order.items
CancelItem(c) ==
  /\ pc[c] = "x_loop"
  /\ LET item == order[c].items[idx[c]]
         p    == item.productId
     IN
     IF p \in Products
     THEN /\ CanLock(lockP[p], c)
          /\ lockP' = [lockP EXCEPT ![p] = c]
          /\ txP' = [txP EXCEPT ![c] = Overlay(@, p :> Restock(TxProduct(c, p), item.quantity))]
     ELSE UNCHANGED <<lockP, txP>>
  /\ idx' = [idx EXCEPT ![c] = @ + 1]
  /\ pc' = [pc EXCEPT ![c] = IF idx[c] = Len(order[c].items) THEN "x_commit" ELSE "x_loop"]
  /\ UNCHANGED <<db, nextId, lockO, op, dto, oid, target, savedOrder, orderItems,
                 updatedProducts, total, order, txO, res, ret, nops, stock0, cancels>>

\* mutant: cancelling also zeroes the total
CancelledOrderZeroTotal(o) == [o EXCEPT !.status = "CANCELLED", !.total = 0]

\* the order entity as cancel saves it
CancelledOrder(o) == [o EXCEPT !.status = "CANCELLED"]

\* order.status = CANCELLED; manager.save(Order, order), an UPDATE that waits for
\* the order's row lock unless the transaction holds it; commitTransaction;
\* return savedOrder
CancelCommit(c) ==
  /\ pc[c] = "x_commit"
  /\ CanLock(lockO[oid[c]], c)
  /\ products' = CommittedProducts(c)
  /\ orders' = Overlay(orders, oid[c] :> CancelledOrder(order[c]))
  /\ ReleaseLocks(c)
  /\ res' = [res EXCEPT ![c] = "ok"]
  /\ ret' = [ret EXCEPT ![c] = CancelledOrder(order[c])]
  /\ cancels' = [cancels EXCEPT ![oid[c]] = @ + 1]
  /\ txP' = [txP EXCEPT ![c] = EmptyMap]
  /\ txO' = [txO EXCEPT ![c] = EmptyMap]
  /\ ClearLocals(c)
  /\ pc' = [pc EXCEPT ![c] = "idle"]
  /\ UNCHANGED <<nextId, op, nops, stock0>>

\* ---- updateStatus ---------------------------------------------------------
\* the call returns outside any transaction
Return(c, kind, o) ==
  /\ res' = [res EXCEPT ![c] = kind]
  /\ ret' = [ret EXCEPT ![c] = o]
  /\ ClearLocals(c)
  /\ pc' = [pc EXCEPT ![c] = "idle"]

\* mutant: the CANCELLED guard is missing
UpdatableAlways(status) == TRUE

\* may updateStatus change an order that is in this status
Updatable(status) == status # "CANCELLED"

\* updateStatus(id, status) with a status that is not CANCELLED: findOne is next
UpdateEnter(c, id, st) ==
  /\ pc[c] = "idle"
  /\ nops' = nops + 1
  /\ op' = [op EXCEPT ![c] = "updateStatus"]
  /\ oid' = [oid EXCEPT ![c] = id]
  /\ target' = [target EXCEPT ![c] = st]
  /\ pc' = [pc EXCEPT ![c] = "u_read"]
  /\ res' = [res EXCEPT ![c] = "none"]
  /\ ret' = [ret EXCEPT ![c] = NoOrder]
  /\ UNCHANGED <<db, nextId, lockP, lockO, dto, savedOrder, idx, orderItems,
                 updatedProducts, total, order, txP, txO, stock0, cancels>>

\* mutant: CANCELLED is written like any other status, cancel is not called
UpdateStartNoDelegation(c, id, st) == UpdateEnter(c, id, st)

\* if (status === OrderStatus.CANCELLED) return this.cancel(id)
UpdateStart(c, id, st) ==
  IF st = "CANCELLED" THEN CancelLock(c, id, "updateStatus", st) ELSE UpdateEnter(c, id, st)

\* const order = await this.findOne(id), an unlocked read, and the CANCELLED guard
UpdateRead(c) ==
  /\ pc[c] = "u_read"
  /\ IF oid[c] \notin DOMAIN orders
     THEN Return(c, "NotFound", NoOrder)
     ELSE IF ~Updatable(orders[oid[c]].status)
     THEN Return(c, "InvalidRequest", NoOrder)
     ELSE /\ order' = [order EXCEPT ![c] = orders[oid[c]]]
          /\ pc' = [pc EXCEPT ![c] = "u_save"]
          /\ UNCHANGED <<dto, oid, target, savedOrder, idx, orderItems, updatedProducts,
                         total, res, ret>>
  /\ UNCHANGED <<db, nextId, lockP, lockO, op, txP, txO, nops, stock0, cancels>>

\* order.status = status; return this.ordersRepository.save(order)
UpdateSave(c) ==
  /\ pc[c] = "u_save"
  /\ CanLock(lockO[oid[c]], c)
  /\ orders' = [orders EXCEPT ![oid[c]].status = target[c]]
  /\ Return(c, "ok", [order[c] EXCEPT !.status = target[c]])
  /\ UNCHANGED <<products, nextId, lockP, lockO, op, txP, txO, nops, stock0, cancels>>

\* ---- faults ---------------------------------------------------------------
InTransaction(c) ==
  pc[c] \in {"c_loop", "c_commit", "x_read", "x_loop", "x_commit"}

\* a storage fault in an awaited call of an open transaction: catch, rollback
Fault(c) ==
  /\ InTransaction(c)
  /\ Rollback(c, "InternalFailure")

\* a storage fault in an awaited call made outside a transaction
FaultOutside(c) ==
  /\ pc[c] \in {"c_find", "u_read", "u_save"}
  /\ Return(c, "InternalFailure", NoOrder)
  /\ UNCHANGED <<db, nextId, lockP, lockO, op, txP, txO, nops, stock0, cancels>>

\* ---- specification --------------------------------------------------------
\* the steps of calls in progress
Step(c) ==
  \/ CreateLine(c)
  \/ CreateCommit(c)
  \/ CreateFind(c)
  \/ CancelRead(c)
  \/ CancelItem(c)
  \/ CancelCommit(c)
  \/ UpdateRead(c)
  \/ UpdateSave(c)

\* POST /orders
CreateCall(c) == nops < MaxOps /\ \E d \in CreateOrderDtos : CreateStart(c, d)

\* POST /orders/:id/cancel
CancelCall(c) == nops < MaxOps /\ \E id \in OrderIds : CancelStart(c, id)

\* PATCH /orders/:id/status
UpdateStatusCall(c) ==
  nops < MaxOps /\ \E id \in OrderIds, st \in OrderStatus : UpdateStart(c, id, st)

Next ==
  \E c \in Clients :
    \/ CreateCall(c)
    \/ CancelCall(c)
    \/ UpdateStatusCall(c)
    \/ Step(c)
    \/ Fault(c)
    \/ FaultOutside(c)

Spec == Init /\ [][Next]_vars

\* Two create requests for quantity 1 of one product whose stock is 1 have been
\* received, one per client, and run to completion with no storage fault.
InitTwoCreates ==
  /\ InitStore
  /\ \E p \in Products :
       /\ stock0[p] = 1
       /\ dto = [c \in Clients |->
                  [userId |-> "u1", items |-> <<[productId |-> p, quantity |-> 1]>>]]

CreateReceived(c) == op[c] = "none" /\ CreateStart(c, dto[c])

NextTwoCreates ==
  \E c \in Clients :
    \/ CreateReceived(c)
    \/ CreateLine(c)
    \/ CreateCommit(c)
    \/ CreateFind(c)

SpecTwoCreates == InitTwoCreates /\ [][NextTwoCreates]_vars

\* The calls of clients that act on what they have seen: single-line creates
\* by an existing user for an existing product, cancel and updateStatus of
\* orders that are committed; no storage fault.  Every behaviour of SpecRace is
\* a behaviour of the service; it runs one operation more than Spec.
SingleLineDtos ==
  [userId : Users, items : [1..1 -> [productId : Products, quantity : 1..MaxQty]]]

RaceCreate(c) == nops < RaceOps /\ \E d \in SingleLineDtos : CreateStart(c, d)

RaceCancel(c) == nops < RaceOps /\ \E id \in DOMAIN orders : CancelStart(c, id)

RaceUpdateStatus(c) ==
  nops < RaceOps /\ \E id \in DOMAIN orders, st \in OrderStatus : UpdateStart(c, id, st)

NextRace ==
  \E c \in Clients :
    \/ RaceCreate(c)
    \/ RaceCancel(c)
    \/ RaceUpdateStatus(c)
    \/ Step(c)

SpecRace == Init /\ [][NextRace]_vars

\* ---- properties -----------------------------------------------------------

\* C1: in every committed state every product's stock is >= 0, whatever the
\* interleaving of create, cancel and updateStatus.
StockNeverNegative == \A p \in Products : products[p].stock >= 0

\* two committed orders took the whole stock of one product
SoldOutByTwoOrders ==
  \E p \in Products : \E i, j \in DOMAIN orders :
    /\ i # j
    /\ products[p].stock = 0
    /\ QtyFor(orders[i].items, p) > 0
    /\ QtyFor(orders[j].items, p) > 0

\* C2 as stated: a create call that ends in failure, at whatever step, has
\* left the committed store untouched and its order is not in it.
CreateFailureLeavesNothing ==
  [][\A c \in Clients :
       (pc[c] \in {"c_loop", "c_commit", "c_find"} /\ pc'[c] = "idle" /\ res'[c] # "ok")
         => (UNCHANGED db /\ savedOrder[c] \notin DOMAIN orders')]_vars

\* the committed store after c's create has committed: the new order, PENDING,
\* with one item per line, and every line's quantity taken from its product
CreateCommitted(c) ==
  LET id == savedOrder[c]
      lines == dto[c].items
  IN
  /\ id \notin DOMAIN orders
  /\ DOMAIN orders' = DOMAIN orders \cup {id}
  /\ \A j \in DOMAIN orders : orders'[j] = orders[j]
  /\ orders'[id].status = "PENDING"
  /\ orders'[id].userId = dto[c].userId
  /\ Len(orders'[id].items) = Len(lines)
  /\ \A k \in 1..Len(lines) :
       /\ orders'[id].items[k].productId = lines[k].productId
       /\ orders'[id].items[k].quantity = lines[k].quantity
  /\ \A p \in Products : products'[p].stock = products[p].stock - QtyFor(lines, p)

\* C2 (amended): a create call changes the committed store in its commit step
\* only.  A call that fails before its commit completes (user or product not
\* found, product unavailable, insufficient stock, storage fault) leaves no
\* order, no item and no stock change; the commit step adds the order in
\* PENDING with all its items and every line's decrement; a call that fails in
\* the read after the commit leaves that order committed.
CreateAllOrNothing ==
  [][\A c \in Clients :
       /\ (pc[c] = "idle" /\ pc'[c] = "idle" /\ nops' # nops
             /\ op'[c] = "create" /\ res'[c] = "NotFound") => UNCHANGED db
       /\ (pc[c] = "idle" /\ pc'[c] = "c_loop") => UNCHANGED db
       /\ (pc[c] = "c_loop" /\ idx'[c] # idx[c]) => UNCHANGED db
       /\ (pc[c] = "c_commit" /\ pc'[c] = "idle") => UNCHANGED db
       /\ (pc[c] = "c_commit" /\ pc'[c] = "c_find") => CreateCommitted(c)
       /\ (pc[c] = "c_find" /\ pc'[c] = "idle")
             => (UNCHANGED db /\ savedOrder[c] \in DOMAIN orders')]_vars

\* a create got past the user lookup and then failed on a line: nothing persists
CreateFailedOnALine ==
  \E c \in Clients :
    /\ op[c] = "create" /\ pc[c] = "idle" /\ res[c] = "InvalidRequest"
    /\ nextId = 2
    /\ orders = EmptyMap
    /\ \A p \in Products : products[p].stock = stock0[p]

\* C3: for every committed order, total is the sum of price * quantity over its
\* items, and every item's price is the price of its product.
OrderTotalsConsistent ==
  \A id \in DOMAIN orders :
    /\ orders[id].total = SumItems(orders[id].items)
    /\ \A k \in 1..Len(orders[id].items) :
         orders[id].items[k].price = price[orders[id].items[k].productId]

\* a committed order with two items on different products, one of quantity 2
OrderWithTwoProducts ==
  \E id \in DOMAIN orders :
    /\ Len(orders[id].items) = 2
    /\ orders[id].items[1].productId # orders[id].items[2].productId
    /\ orders[id].items[1].quantity = 2

\* C4: the commit of a create takes from every product exactly the sum of the
\* quantities of the request's lines on it (repeated ids included) and leaves
\* the rows of the products the request does not name as they were.
CreateDecrementsExactly ==
  [][\A c \in Clients :
       (pc[c] = "c_commit" /\ pc'[c] = "c_find") =>
          \A p \in Products :
            IF QtyFor(dto[c].items, p) = 0
            THEN products'[p] = products[p]
            ELSE products'[p].stock = products[p].stock - QtyFor(dto[c].items, p)]_vars

\* a create whose two lines name the same product has committed
RepeatedProductCommitted ==
  \E c \in Clients :
    /\ pc[c] = "c_find"
    /\ Len(dto[c].items) = 2
    /\ dto[c].items[1].productId = dto[c].items[2].productId
    /\ savedOrder[c] \in DOMAIN orders

\* C5: two concurrent creates, each for quantity 1 of the same product whose
\* stock is 1: once both have returned, exactly one has succeeded, the other
\* has failed with InvalidRequest, one order is committed and the product's
\* stock is 0.
BothReturned == \A c \in Clients : op[c] = "create" /\ pc[c] = "idle"

TwoCreatesOneWins ==
  BothReturned =>
    /\ \E c \in Clients :
         /\ res[c] = "ok"
         /\ \A d \in Clients \ {c} : res[d] = "InvalidRequest"
    /\ Cardinality(DOMAIN orders) = 1
    /\ \A id \in DOMAIN orders :
         LET p == orders[id].items[1].productId IN
         /\ stock0[p] = 1
         /\ products[p] = [stock |-> 0, isAvailable |-> FALSE]
         /\ \A q \in Products \ {p} : products[q].stock = stock0[q]

\* both creates have returned and the one that lost is c1, which started first
FirstStarterLost ==
  /\ BothReturned
  /\ res["c1"] = "InvalidRequest"
  /\ res["c2"] = "ok"
  /\ 2 \in DOMAIN orders

\* C6 as stated: of the cancel calls on one order at most one succeeds, so its
\* quantities are put back once.
AtMostOneCancelSucceeds == \A id \in OrderIds : cancels[id] <= 1

\* the committed store after c's cancel has committed
CancelCommitted(c) ==
  LET id == oid[c]
      items == orders[id].items
  IN
  /\ orders' = [orders EXCEPT ![id].status = "CANCELLED"]
  /\ \A p \in Products :
       products'[p] =
         IF QtyFor(items, p) = 0 THEN products[p]
         ELSE [stock |-> products[p].stock + QtyFor(items, p), isAvailable |-> TRUE]

\* C7: a cancel changes the committed store in its commit step only, and that
\* step sets the order's status to CANCELLED and adds every item's quantity to
\* its product's stock with isAvailable = true; a cancel of an id with no order
\* fails with NotFound (InternalFailure on a storage fault) and changes nothing.
CancelRestocksAtomically ==
  [][\A c \in Clients :
       /\ (pc[c] = "x_commit" /\ pc'[c] = "idle" /\ res'[c] = "ok") => CancelCommitted(c)
       /\ (pc[c] = "x_commit" /\ pc'[c] = "idle" /\ res'[c] # "ok") => UNCHANGED db
       /\ (pc[c] = "x_loop" /\ idx'[c] # idx[c]) => UNCHANGED db
       /\ (pc[c] = "x_read" /\ pc'[c] # "x_read") => UNCHANGED db
       /\ (pc[c] = "x_read" /\ pc'[c] # "x_read" /\ oid[c] \notin DOMAIN orders)
            => (pc'[c] = "idle" /\ res'[c] \in {"NotFound", "InternalFailure"})]_vars

\* a cancel has returned an order whose two items are on the same product
CancelledRepeatedProduct ==
  \E c \in Clients :
    /\ op[c] = "cancel" /\ pc[c] = "idle" /\ res[c] = "ok"
    /\ ret[c].status = "CANCELLED"
    /\ Len(ret[c].items) = 2
    /\ ret[c].items[1].productId = ret[c].items[2].productId

\* C8 as stated: once an order's committed status is CANCELLED it is CANCELLED
\* in every later state.
CancelledIsTerminal ==
  [][\A id \in DOMAIN orders :
       orders[id].status = "CANCELLED" => orders'[id].status = "CANCELLED"]_vars

\* C9: in every committed state, for every product, isAvailable holds exactly
\* when stock > 0.
FlagMatchesStock ==
  \A p \in Products : products[p].isAvailable <=> (products[p].stock > 0)

\* a cancel has returned after putting back the whole stock of a product that
\* its order had taken
SoldOutThenRestocked ==
  \E c \in Clients :
    /\ op[c] = "cancel" /\ pc[c] = "idle" /\ res[c] = "ok"
    /\ LET it == ret[c].items[1] IN
       /\ Len(ret[c].items) = 1
       /\ it.quantity = stock0[it.productId]
       /\ products[it.productId] = [stock |-> it.quantity, isAvailable |-> TRUE]

\* the request names a product id that has no row
HasMissing(lines) == \E k \in 1..Len(lines) : lines[k].productId \notin Products

\* C10 as stated: a create whose request names a nonexistent product on any
\* line fails with NotFound (storage faults set aside).
MissingProductGivesNotFound ==
  [][\A c \in Clients :
       (pc[c] = "c_loop" /\ HasMissing(dto[c].items) /\ pc'[c] = "idle"
          /\ res'[c] # "InternalFailure")
         => res'[c] = "NotFound"]_vars

\* C10 (amended): a create whose request names a nonexistent product on any
\* line never commits and changes no stock; it fails with NotFound when its
\* loop reaches the missing line, that is when every line before it passes
\* the availability and stock guards, and otherwise with the failure of the
\* earlier line (InternalFailure on a storage fault).
MissingProductNeverCommits ==
  [][\A c \in Clients :
       (pc[c] = "c_loop" /\ HasMissing(dto[c].items) /\ idx'[c] # idx[c]) =>
          /\ UNCHANGED db
          /\ pc'[c] \in {"c_loop", "idle"}
          /\ (dto[c].items[idx[c]].productId \notin Products
                => (pc'[c] = "idle" /\ res'[c] \in {"NotFound", "InternalFailure"}))
          /\ (pc'[c] = "idle" /\ dto[c].items[idx[c]].productId \in Products
                => res'[c] \in {"InvalidRequest", "InternalFailure"})]_vars

\* a create by an existing user has failed with NotFound: on a product
MissingProductRejected ==
  \E c \in Clients :
    /\ op[c] = "create" /\ pc[c] = "idle" /\ res[c] = "NotFound"
    /\ nextId = 2
    /\ orders = EmptyMap
    /\ \A p \in Products : products[p].stock = stock0[p]


\* the quantity the first n lines of a request ask of product p
AskedUpTo(lines, n, p) == QtyFor(SubSeq(lines, 1, n), p)

\* C11: a line of a create request that names a product already named by an
\* earlier line of the same request is checked against the stock the earlier
\* lines have left: when the quantity asked so far, this line included, exceeds
\* the committed stock, the call fails with InvalidRequest and the store is
\* unchanged; otherwise the line passes and the entity carries the stock less
\* everything asked so far.  A create whose read after commit works returns ok.
\* Steps that are storage faults (InternalFailure) are set aside.
RepeatedProductUsesReservedStock ==
  [][\A c \in Clients :
       /\ (/\ pc[c] = "c_loop" /\ idx'[c] # idx[c] /\ res'[c] # "InternalFailure"
           /\ dto[c].items[idx[c]].productId \in DOMAIN updatedProducts[c])
          => LET pid == dto[c].items[idx[c]].productId
                 asked == AskedUpTo(dto[c].items, idx[c], pid)
             IN IF asked > products[pid].stock
                THEN pc'[c] = "idle" /\ res'[c] = "InvalidRequest" /\ UNCHANGED db
                ELSE /\ pc'[c] \in {"c_loop", "c_commit"}
                     /\ updatedProducts'[c][pid].stock = products[pid].stock - asked
       /\ (pc[c] = "c_find" /\ pc'[c] = "idle" /\ res'[c] # "InternalFailure")
          => res'[c] = "ok"]_vars

\* a request with two lines on one product has passed both lines, and what it
\* is about to commit is the stock less both quantities
RepeatedProductPassed ==
  \E c \in Clients : \E p \in Products :
    /\ pc[c] = "c_commit"
    /\ Len(dto[c].items) = 2
    /\ dto[c].items[1].productId = p /\ dto[c].items[2].productId = p
    /\ txP[c][p].stock = products[p].stock - 2
    /\ txP[c][p].stock = 0

\* C12: a cancel that fails leaves the committed store as it was, holds no
\* lock and keeps no buffered write; it fails with NotFound only when the
\* order does not exist, with InvalidRequest only when the order is not
\* PENDING, and with InternalFailure in every other case.
CancelFailureRollsBack ==
  [][\A c \in Clients :
       (pc[c] \in {"x_read", "x_loop", "x_commit"} /\ pc'[c] = "idle" /\ res'[c] # "ok")
         => /\ UNCHANGED db
            /\ txP'[c] = EmptyMap
            /\ \A p \in Products : lockP'[p] # c
            /\ \A i \in OrderIds : lockO'[i] # c
            /\ res'[c] \in {"NotFound", "InvalidRequest", "InternalFailure"}
            /\ res'[c] = "NotFound" => (pc[c] = "x_read" /\ oid[c] \notin DOMAIN orders)
            /\ res'[c] = "InvalidRequest"
                 => /\ pc[c] = "x_read"
                    /\ oid[c] \in DOMAIN orders
                    /\ orders[oid[c]].status # "PENDING"]_vars

\* a cancel of the only order failed on a storage fault: the order is still
\* PENDING and its quantities are still out of the stock
CancelFailedOnFault ==
  \E c \in Clients :
    /\ op[c] = "cancel" /\ pc[c] = "idle" /\ res[c] = "InternalFailure"
    /\ DOMAIN orders = {1}
    /\ orders[1].status = "PENDING"
    /\ cancels[1] = 0
    /\ \A p \in Products : products[p].stock = stock0[p] - QtyFor(orders[1].items, p)
    /\ \E p \in Products : products[p].stock < stock0[p]

\* C13: an updateStatus call whose target is not CANCELLED never changes a
\* product; its read changes nothing and fails with NotFound exactly when the
\* order is absent and with InvalidRequest exactly when the order is CANCELLED;
\* its save, when it succeeds, changes the status of the addressed order to the
\* target and nothing else, and when it fails changes nothing.
UpdateStatusFrame ==
  [][\A c \in Clients :
       /\ (pc[c] = "idle" /\ pc'[c] = "u_read") => UNCHANGED db
       /\ (pc[c] = "u_read" /\ pc'[c] # "u_read" /\ res'[c] # "InternalFailure")
            => /\ UNCHANGED db
               /\ target[c] # "CANCELLED"
               /\ IF oid[c] \notin DOMAIN orders
                  THEN pc'[c] = "idle" /\ res'[c] = "NotFound"
                  ELSE IF orders[oid[c]].status = "CANCELLED"
                  THEN pc'[c] = "idle" /\ res'[c] = "InvalidRequest"
                  ELSE pc'[c] = "u_save"
       /\ (pc[c] = "u_read" /\ res'[c] = "InternalFailure") => UNCHANGED db
       /\ (pc[c] = "u_save" /\ pc'[c] = "idle")
            => /\ products' = products
               /\ IF res'[c] = "ok"
                  THEN /\ DOMAIN orders' = DOMAIN orders
                       /\ \A i \in DOMAIN orders :
                            orders'[i] = IF i = oid[c]
                                         THEN [orders[i] EXCEPT !.status = target[c]]
                                         ELSE orders[i]
                       /\ ret'[c] = orders'[oid[c]]
                  ELSE orders' = orders]_vars

\* an updateStatus to CONFIRMED has succeeded on an order whose quantities are
\* still out of the stock
OrderConfirmed ==
  \E c \in Clients : \E id \in DOMAIN orders :
    /\ op[c] = "updateStatus" /\ pc[c] = "idle" /\ res[c] = "ok"
    /\ ret[c].status = "CONFIRMED"
    /\ orders[id].status = "CONFIRMED"
    /\ \E p \in Products : QtyFor(orders[id].items, p) > 0 /\ products[p].stock < stock0[p]

\* C14: updateStatus(id, CANCELLED) runs cancel(id): it enters cancel's
\* transaction and never the plain status write, a failure of it leaves the
\* store unchanged with one of cancel's failure kinds, and its success is
\* cancel's commit (the order CANCELLED, every item's quantity back in stock);
\* and any step that increases a product's stock is the commit of a
\* cancellation.
UpdateToCancelledIsCancel ==
  [][/\ \A c \in Clients :
          /\ (pc[c] = "idle" /\ pc'[c] # "idle" /\ op'[c] = "updateStatus"
                /\ target'[c] = "CANCELLED")
               => (pc'[c] = "x_read" /\ UNCHANGED db
                     /\ (oid'[c] \in DOMAIN orders => lockO'[oid'[c]] = c))
          /\ (op[c] = "updateStatus" /\ target[c] = "CANCELLED" /\ pc[c] # "idle")
               => /\ pc[c] \in {"x_read", "x_loop", "x_commit"}
                  /\ pc'[c] \in {"x_read", "x_loop", "x_commit", "idle"}
                  /\ (pc'[c] = "idle" /\ res'[c] # "ok")
                       => /\ UNCHANGED db
                          /\ res'[c] \in {"NotFound", "InvalidRequest", "InternalFailure"}
                          /\ res'[c] = "NotFound" => oid[c] \notin DOMAIN orders
                          /\ res'[c] = "InvalidRequest" => orders[oid[c]].status # "PENDING"
                  /\ (pc'[c] = "idle" /\ res'[c] = "ok")
                       => /\ pc[c] = "x_commit"
                          /\ CancelCommitted(c)
                          /\ ret'[c].status = "CANCELLED"
     /\ \A p \in Products :
          products'[p].stock > products[p].stock
            => \E c \in Clients :
                 /\ pc[c] = "x_commit" /\ pc'[c] = "idle" /\ res'[c] = "ok"
                 /\ op[c] \in {"cancel", "updateStatus"}
                 /\ QtyFor(orders[oid[c]].items, p) > 0]_vars

\* an updateStatus to CANCELLED has cancelled the only order and its
\* quantities are back in the stock
CancelledByUpdateStatus ==
  \E c \in Clients :
    /\ op[c] = "updateStatus" /\ pc[c] = "idle" /\ res[c] = "ok"
    /\ ret[c].status = "CANCELLED"
    /\ DOMAIN orders = {1}
    /\ orders[1].status = "CANCELLED"
    /\ cancels[1] = 1
    /\ \A p \in Products : products[p].stock = stock0[p]
    /\ \E p \in Products : QtyFor(orders[1].items, p) > 0

\* the product whose row lock the client's transaction is waiting for, if any
WaitsFor(c) ==
  IF pc[c] = "c_loop"
  THEN LET pid == dto[c].items[idx[c]].productId
       IN IF LineReadable(c, pid) THEN {} ELSE {pid}
  ELSE IF pc[c] = "x_loop"
  THEN LET p == order[c].items[idx[c]].productId
       IN IF p \in Products /\ ~CanLock(lockP[p], c) THEN {p} ELSE {}
  ELSE {}

\* C15 as stated: no reachable state has two transactions each waiting for a
\* product lock that the other holds.
NoMutualWait ==
  \A c, d \in Clients :
    c # d => ~(\E p \in WaitsFor(c), q \in WaitsFor(d) : lockP[p] = d /\ lockP[q] = c)

\* the quantity of product p that the transaction of c has worked through so
\* far: the lines of its request before idx (create), the items of its order
\* before idx (cancel)
Processed(c, p) ==
  IF pc[c] \in {"c_loop", "c_commit"} THEN AskedUpTo(dto[c].items, idx[c] - 1, p)
  ELSE IF pc[c] \in {"x_loop", "x_commit"} THEN AskedUpTo(order[c].items, idx[c] - 1, p)
  ELSE 0

\* every product value that a create or cancel transaction has computed or
\* buffered for writing belongs to a row whose exclusive lock the transaction
\* holds, and is the committed stock less the quantities asked (create) or
\* plus the quantities put back (cancel)
BufferedUnderLock ==
  /\ \A c \in Clients : \A p \in Products :
       /\ (p \in DOMAIN updatedProducts[c] /\ pc[c] \in {"c_loop", "c_commit"})
            => /\ lockP[p] = c
               /\ updatedProducts[c][p].stock = products[p].stock - Processed(c, p)
       /\ p \in DOMAIN txP[c]
            => /\ lockP[p] = c
               /\ pc[c] \in {"c_commit", "x_loop", "x_commit"}
               /\ txP[c][p].stock =
                    IF pc[c] = "c_commit" THEN products[p].stock - Processed(c, p)
                    ELSE products[p].stock + Processed(c, p)
  /\ \A c \in Clients : DOMAIN txP[c] \subseteq Products

\* C16: every write to a product row, by create or by cancel, is made by a
\* transaction that holds the row's exclusive lock when it writes and has held
\* it since before it read the values the write is computed from: what a
\* transaction has buffered is always under its lock and computed from the
\* row's committed value, and a step that changes a product row is the commit
\* of the lock holder writing the value it buffered.
ProductWriteByLockHolder ==
  [][/\ BufferedUnderLock'
     /\ \A p \in Products :
          products'[p] # products[p]
            => \E c \in Clients :
                 /\ lockP[p] = c
                 /\ pc[c] \in {"c_commit", "x_commit"}
                 /\ p \in DOMAIN txP[c]
                 /\ products'[p] = txP[c][p]]_vars

\* a create has saved a product under its lock, one unit less than the
\* committed row, while the other client's transaction waits for that lock
SavedWhileOtherWaits ==
  \E c, d \in Clients : \E p \in Products :
    /\ c # d
    /\ pc[c] = "c_commit"
    /\ p \in DOMAIN txP[c] /\ lockP[p] = c
    /\ txP[c][p].stock = products[p].stock - 1
    /\ p \in WaitsFor(d)

\* C17: a client that is not inside a create or cancel transaction (it is
\* idle, create's transaction has committed and the order is being read back,
\* or it is in an updateStatus to a status other than CANCELLED) holds no
\* product lock and no order lock and has no uncommitted write.
LocksEndWithTransaction ==
  \A c \in Clients :
    pc[c] \in {"idle", "c_find", "u_read", "u_save"}
      => /\ \A p \in Products : lockP[p] # c
         /\ \A i \in OrderIds : lockO[i] # c
         /\ txP[c] = EmptyMap
         /\ txO[c] = EmptyMap

\* a cancel has committed and a create has been rolled back, and no lock is held
CancelDoneAndCreateRolledBack ==
  \E c, d \in Clients :
    /\ op[c] = "cancel" /\ pc[c] = "idle" /\ res[c] = "ok"
    /\ op[d] = "create" /\ pc[d] = "idle" /\ res[d] = "InvalidRequest"
    /\ \E i \in DOMAIN orders : orders[i].status = "CANCELLED"
    /\ \A p \in Products : lockP[p] = NoClient
    /\ \A i \in OrderIds : lockO[i] = NoClient

\* C18 as stated: the order returned by a successful create has status PENDING.
CreateReturnsPending ==
  \A c \in Clients :
    (op[c] = "create" /\ pc[c] = "idle" /\ res[c] = "ok") => ret[c].status = "PENDING"

\* C18 (amended): the order returned by a successful create is the committed
\* order as read after the commit: it has the userId and the lines of the
\* request as items (product, quantity, product price), the computed total, and
\* the status committed at the time of the read, which is PENDING unless a
\* concurrent cancel or updateStatus on that order has committed in between.
CreateReturnsCommittedOrder ==
  [][\A c \in Clients :
       (pc[c] = "c_find" /\ pc'[c] = "idle" /\ res'[c] = "ok")
         => LET lines == dto[c].items
                o == ret'[c]
            IN /\ o = orders[savedOrder[c]]
               /\ o.userId = dto[c].userId
               /\ Len(o.items) = Len(lines)
               /\ \A k \in 1..Len(lines) :
                    /\ o.items[k].productId = lines[k].productId
                    /\ o.items[k].quantity = lines[k].quantity
                    /\ o.items[k].price = price[lines[k].productId]
               /\ o.total = SumItems(o.items)
               /\ o.total > 0
               /\ (o.status # "PENDING" => cancels[savedOrder[c]] > 0 \/ o.status = "CONFIRMED")]_vars

\* a create has returned its order, with its items and total, in status
\* CANCELLED: the other client cancelled it between the commit and the read
CreateReturnedCancelled ==
  \E c \in Clients :
    /\ op[c] = "create" /\ pc[c] = "idle" /\ res[c] = "ok"
    /\ ret[c].status = "CANCELLED"
    /\ Len(ret[c].items) > 0
    /\ ret[c].total = SumItems(ret[c].items)

\* C19: once an order is committed, its items (productId, quantity and price
\* of each), its total and its userId never change, and no order is removed: a
\* step changes at most the status of committed orders.
OrderContentImmutable ==
  [][\A id \in DOMAIN orders :
       /\ id \in DOMAIN orders'
       /\ orders'[id].items = orders[id].items
       /\ orders'[id].total = orders[id].total
       /\ orders'[id].userId = orders[id].userId]_vars

\* an order of two items has been cancelled: it still has its items and its
\* total, and the stock is back
CancelledOrderKeepsContent ==
  \E id \in DOMAIN orders :
    /\ orders[id].status = "CANCELLED"
    /\ Len(orders[id].items) = 2
    /\ orders[id].total = SumItems(orders[id].items)
    /\ orders[id].total > 0
    /\ \A p \in Products : products[p].stock = stock0[p]

\* the quantity of product p held by the committed orders that are not CANCELLED
RECURSIVE HeldBy(_, _)
HeldBy(ids, p) ==
  IF ids = {} THEN 0
  ELSE LET id == CHOOSE i \in ids : TRUE
       IN (IF orders[id].status # "CANCELLED" THEN QtyFor(orders[id].items, p) ELSE 0)
            + HeldBy(ids \ {id}, p)

\* C20 as stated: in every reachable committed state, for every product, the
\* stock plus the quantities of the product in the committed orders that are
\* not CANCELLED is the initial stock; hence the stock never exceeds it.
StockConserved ==
  \A p \in Products :
    /\ products[p].stock + HeldBy(DOMAIN orders, p) = stock0[p]
    /\ products[p].stock <= stock0[p]

====
